---------------------------- MODULE Spec2Model ----------------------------
(***************************************************************************)
(* The tile tools of src/assets/tiles: tilesplitter.py (Splitter),         *)
(* renamer.py (Renamer) and tilemapforatlas.py (Atlas Packer), as state    *)
(* machines over one working folder.                                       *)
(*                                                                         *)
(* A file name is a sequence of one-character strings, so that the string  *)
(* operations of the scripts (endswith, lower, splitext, split, int, the   *)
(* f-string formatting of an integer) are computed character by character. *)
(* An image is a record [w, h, src, opaque]: a w x h window whose pixel    *)
(* (i, j) is pixel src + (i, j) of the Splitter's source image (all source *)
(* pixels are taken to be pairwise distinct), opaque being the window's    *)
(* pixels with non-zero alpha.  The atlas is its canvas size and the       *)
(* pastes made onto it, in order.  os.rename has its POSIX meaning: an     *)
(* existing destination file is replaced.                                  *)
(***************************************************************************)
EXTENDS Integers, Sequences, FiniteSets, TLC

VARIABLES
  pc,             \* which script runs and where it stands
  folder,         \* the working folder: file name -> file content
  out,            \* what the scripts printed, in order
  TILESET_WIDTH,  \* renamer.py CONFIG: number of tiles per row
  ATLAS_COLS,     \* tilemapforatlas.py CONFIG: tiles across per atlas row
  tileset,        \* split_tileset: the source image
  tile_width,     \* split_tileset parameters
  tile_height,
  skip_empty,
  sx,             \* split_tileset: loop variable x
  sy,             \* split_tileset: loop variable y
  count,          \* split_tileset: tiles saved so far
  listing,        \* renamer: what os.listdir(FOLDER) returned
  ri,             \* renamer: number of listing entries already handled
  files,          \* packer main(): the sorted .png names
  atlas,          \* packer main(): the canvas
  mapping,        \* packer main(): the manifest under construction
  pi,             \* packer main(): loop index i
  startFolder,    \* ghost: the folder as the current script run found it
  runlog,         \* ghost: one record per packer run that has ended
  cleared         \* ghost: the atlas image was deleted since the last packer run

vars == <<pc, folder, out, TILESET_WIDTH, ATLAS_COLS, tileset, tile_width,
          tile_height, skip_empty, sx, sy, count, listing, ri, files, atlas,
          mapping, pi, startFolder, runlog, cleared>>

configVars   == <<TILESET_WIDTH, ATLAS_COLS>>
splitterVars == <<tileset, tile_width, tile_height, skip_empty, sx, sy, count>>
renamerVars  == <<listing, ri>>
packerVars   == <<files, atlas, mapping, pi, runlog, cleared>>

-----------------------------------------------------------------------------
(* Bounds of the model *)

\* most files in the folder a Renamer or Packer run starts from
MaxFiles == 3
\* the configured column counts (TILESET_WIDTH, ATLAS_COLS) range over
\* 1..MaxCols and the value the script ships with
MaxCols == 3
\* most tiles of a source image in the pipeline
MaxTiles == 4
\* most Packer runs in one behaviour
MaxRuns == 2
\* the Splitter alone takes every source width up to MaxWidth
MaxWidth == 40

-----------------------------------------------------------------------------
(* Strings *)

Digits == <<"0", "1", "2", "3", "4", "5", "6", "7", "8", "9">>
UpperCase == <<"A","B","C","D","E","F","G","H","I","J","K","L","M",
               "N","O","P","Q","R","S","T","U","V","W","X","Y","Z">>
LowerCase == <<"a","b","c","d","e","f","g","h","i","j","k","l","m",
               "n","o","p","q","r","s","t","u","v","w","x","y","z">>

IsDigit(c) == \E i \in 1..Len(Digits) : Digits[i] = c
DigitVal(c) == (CHOOSE i \in 1..Len(Digits) : Digits[i] = c) - 1

SetMax(S) == CHOOSE m \in S : \A n \in S : n <= m
SetMin(S) == CHOOSE m \in S : \A n \in S : m <= n

\* str.lower()
LowerChar(c) ==
  IF \E i \in 1..Len(UpperCase) : UpperCase[i] = c
  THEN LowerCase[CHOOSE i \in 1..Len(UpperCase) : UpperCase[i] = c]
  ELSE c
Lower(s) == [i \in 1..Len(s) |-> LowerChar(s[i])]

\* str.endswith(suffix)
EndsWith(s, suffix) ==
  /\ Len(s) >= Len(suffix)
  /\ SubSeq(s, Len(s) - Len(suffix) + 1, Len(s)) = suffix

\* os.path.splitext on a name without separators: split at the last dot,
\* unless only dots precede it
SplitExt(p) ==
  LET dots == {i \in 1..Len(p) : p[i] = "."}
  IN IF dots # {} /\ (\E j \in 1..(SetMax(dots) - 1) : p[j] # ".")
     THEN <<SubSeq(p, 1, SetMax(dots) - 1), SubSeq(p, SetMax(dots), Len(p))>>
     ELSE <<p, <<>>>>

\* str.split(sep) for a one-character separator
RECURSIVE Split(_, _)
Split(s, sep) ==
  IF \A i \in 1..Len(s) : s[i] # sep
  THEN <<s>>
  ELSE LET k == SetMin({i \in 1..Len(s) : s[i] = sep})
       IN <<SubSeq(s, 1, k - 1)>> \o Split(SubSeq(s, k + 1, Len(s)), sep)

\* str.strip() of blanks
Strip(s) ==
  LET keep == {i \in 1..Len(s) : s[i] # " "}
  IN IF keep = {} THEN <<>> ELSE SubSeq(s, SetMin(keep), SetMax(keep))

\* the value of a digit string in which single underscores may separate digits
RECURSIVE DigitsValue(_)
DigitsValue(b) ==
  IF Len(b) = 0 THEN 0
  ELSE IF b[Len(b)] = "_" THEN DigitsValue(SubSeq(b, 1, Len(b) - 1))
  ELSE 10 * DigitsValue(SubSeq(b, 1, Len(b) - 1)) + DigitVal(b[Len(b)])

ValidDigits(b) ==
  /\ Len(b) > 0
  /\ \A i \in 1..Len(b) : IsDigit(b[i]) \/ b[i] = "_"
  /\ IsDigit(b[1])
  /\ IsDigit(b[Len(b)])
  /\ \A i \in 1..(Len(b) - 1) : ~(b[i] = "_" /\ b[i + 1] = "_")

\* int(s), base 10: surrounding blanks, an optional sign, digits with single
\* underscores between them; anything else raises ValueError (ok = FALSE)
IntParse(s) ==
  LET t == Strip(s)
      signed == Len(t) > 0 /\ t[1] \in {"+", "-"}
      body == IF signed THEN SubSeq(t, 2, Len(t)) ELSE t
  IN IF ValidDigits(body)
     THEN [ok |-> TRUE,
           val |-> IF signed /\ t[1] = "-" THEN 0 - DigitsValue(body)
                   ELSE DigitsValue(body)]
     ELSE [ok |-> FALSE, val |-> 0]

\* f"{n}" for an integer n
RECURSIVE Str(_)
Str(n) ==
  IF n < 0 THEN <<"-">> \o Str(0 - n)
  ELSE IF n < 10 THEN <<Digits[n + 1]>>
  ELSE Str(n \div 10) \o <<Digits[(n % 10) + 1]>>

DotPng == <<".", "p", "n", "g">>

-----------------------------------------------------------------------------
(* Images and files *)

\* Image.crop((left, upper, right, lower)) of a box inside the image
Crop(img, left, upper, right, lower) ==
  [w |-> right - left,
   h |-> lower - upper,
   src |-> <<img.src[1] + left, img.src[2] + upper>>,
   opaque |-> {<<p[1] - left, p[2] - upper>> :
                 p \in {q \in img.opaque : /\ left <= q[1] /\ q[1] < right
                                           /\ upper <= q[2] /\ q[2] < lower}}]

\* Image.getbbox() is None: no pixel of the image is non-transparent
BBoxIsNone(img) == img.opaque = {}

\* the content of a PNG file holding img
PngFile(img) == [kind |-> "png", img |-> img]

\* writing content under name in the folder f (an existing file is replaced)
WriteFile(f, name, content) ==
  [n \in (DOMAIN f) \cup {name} |-> IF n = name THEN content ELSE f[n]]

RemoveFile(f, name) == [n \in (DOMAIN f) \ {name} |-> f[n]]

EmptyFolder == [n \in {} |-> 0]

-----------------------------------------------------------------------------
(* tilesplitter.py: split_tileset *)

\* mutant of tiles_x: a partial trailing column counts as a tile
tiles_x_ceil == (tileset.w + tile_width - 1) \div tile_width

tiles_x == tileset.w \div tile_width
tiles_y == tileset.h \div tile_height

\* f"{x * tile_width}_{y * tile_height}.png"
CoordName(x, y) == Str(x) \o <<"_">> \o Str(y) \o DotPng

\* lines 7-17: load the image, make the output folder, announce, count = 0
SplitterStart ==
  /\ pc = "split_start"
  /\ pc' = "split"
  /\ sx' = 0
  /\ sy' = 0
  /\ count' = 0
  /\ out' = <<<<"Splitting into", tiles_x * tiles_y>>>>
  /\ startFolder' = folder
  /\ UNCHANGED <<folder, tileset, tile_width, tile_height, skip_empty>>
  /\ UNCHANGED <<configVars, renamerVars, packerVars>>

\* one pass of the inner loop body, for the cell (sx, sy)
SplitterIter ==
  /\ pc = "split"
  /\ sy < tiles_y
  /\ sx < tiles_x
  /\ LET left  == sx * tile_width
         upper == sy * tile_height
         right == left + tile_width
         lower == upper + tile_height
         tile  == Crop(tileset, left, upper, right, lower)
     IN IF skip_empty /\ BBoxIsNone(tile)
        THEN UNCHANGED <<folder, count>>
        ELSE /\ folder' = WriteFile(folder,
                                    CoordName(sx * tile_width, sy * tile_height),
                                    PngFile(tile))
             /\ count' = count + 1
  /\ IF sx + 1 < tiles_x
     THEN sx' = sx + 1 /\ sy' = sy
     ELSE sx' = 0 /\ sy' = sy + 1
  /\ UNCHANGED <<pc, out, tileset, tile_width, tile_height, skip_empty,
                 startFolder>>
  /\ UNCHANGED <<configVars, renamerVars, packerVars>>

\* the loops are over: the final print
SplitterDone ==
  /\ pc = "split"
  /\ (sy >= tiles_y \/ tiles_x = 0)
  /\ pc' = "split_done"
  /\ out' = Append(out, <<"Done! Saved", count>>)
  /\ UNCHANGED <<folder, startFolder>>
  /\ UNCHANGED <<configVars, splitterVars, renamerVars, packerVars>>

-----------------------------------------------------------------------------
(* renamer.py: the script body *)

\* the orders os.listdir may return the names of S in
RECURSIVE Orders(_)
Orders(S) ==
  IF S = {} THEN {<<>>}
  ELSE UNION {{<<n>> \o s : s \in Orders(S \ {n})} : n \in S}

\* mutant of ParseCoord: a stem that is one integer is taken as x, with y = 0
ParseCoordOneInt(name) ==
  LET parts == Split(name, "_")
  IN IF Len(parts) = 1 /\ IntParse(parts[1]).ok
     THEN [ok |-> TRUE, x |-> IntParse(parts[1]).val, y |-> 0]
     ELSE IF /\ Len(parts) = 2
             /\ IntParse(parts[1]).ok
             /\ IntParse(parts[2]).ok
     THEN [ok |-> TRUE, x |-> IntParse(parts[1]).val,
           y |-> IntParse(parts[2]).val]
     ELSE [ok |-> FALSE, x |-> 0, y |-> 0]

\* x, y = map(int, name.split("_")), ok = FALSE for ValueError
ParseCoord(name) ==
  LET parts == Split(name, "_")
  IN IF /\ Len(parts) = 2
        /\ IntParse(parts[1]).ok
        /\ IntParse(parts[2]).ok
     THEN [ok |-> TRUE, x |-> IntParse(parts[1]).val,
           y |-> IntParse(parts[2]).val]
     ELSE [ok |-> FALSE, x |-> 0, y |-> 0]

\* mutant of TileId: the id is zero-based
TileIdZeroBased(x, y) == (y \div 16) * TILESET_WIDTH + (x \div 16)

\* tile_id = y // 16 * TILESET_WIDTH + (x // 16) + 1
TileId(x, y) == (y \div 16) * TILESET_WIDTH + (x \div 16) + 1

\* new_name = f"{tile_id}.png"
NewName(tile_id) == Str(tile_id) \o DotPng

\* mutant of Rename: an existing destination is kept, the source dropped
RenameKeepExisting(f, src, dst) ==
  [n \in ((DOMAIN f) \ {src}) \cup {dst} |->
     IF n = dst /\ dst \notin DOMAIN f THEN f[src] ELSE f[n]]

\* os.rename(src, dst) in one folder, src existing
Rename(f, src, dst) ==
  [n \in ((DOMAIN f) \ {src}) \cup {dst} |-> IF n = dst THEN f[src] ELSE f[n]]

\* for filename in os.listdir(FOLDER): the listing is taken once
RenamerListdir ==
  /\ pc \in {"rename_start", "split_done"}
  /\ listing' \in Orders(DOMAIN folder)
  /\ ri' = 0
  /\ pc' = "rename"
  /\ startFolder' = folder
  /\ out' = <<>>
  /\ UNCHANGED folder
  /\ UNCHANGED <<configVars, splitterVars, packerVars>>

\* one pass of the loop body, for listing[ri + 1]
RenamerIter ==
  /\ pc = "rename"
  /\ ri < Len(listing)
  /\ LET filename == listing[ri + 1]
         name     == SplitExt(filename)[1]
         c        == ParseCoord(name)
         new_name == NewName(TileId(c.x, c.y))
     IN IF ~EndsWith(filename, DotPng)
        THEN /\ ri' = ri + 1
             /\ UNCHANGED <<pc, folder, out>>
        ELSE IF ~c.ok
        THEN /\ out' = Append(out, <<"Skipping", filename>>)
             /\ ri' = ri + 1
             /\ UNCHANGED <<pc, folder>>
        ELSE IF filename \notin DOMAIN folder
        THEN \* os.rename raises FileNotFoundError: the script dies
             /\ pc' = "rename_failed"
             /\ UNCHANGED <<folder, out, ri>>
        ELSE /\ folder' = Rename(folder, filename, new_name)
             /\ out' = Append(out, <<"Renamed", filename, new_name>>)
             /\ ri' = ri + 1
             /\ UNCHANGED pc
  /\ UNCHANGED <<listing, startFolder>>
  /\ UNCHANGED <<configVars, splitterVars, packerVars>>

\* the listing is exhausted: the script ends
RenamerDone ==
  /\ pc = "rename"
  /\ ri = Len(listing)
  /\ pc' = "rename_done"
  /\ UNCHANGED <<folder, out, startFolder>>
  /\ UNCHANGED <<configVars, splitterVars, renamerVars, packerVars>>

-----------------------------------------------------------------------------
(* tilemapforatlas.py: main *)

\* mutant of OUTPUT_IMAGE: the atlas is written under a name that is no .png
OUTPUT_IMAGE_bmp == <<"t", "i", "l", "e", "s", "e", "t", ".", "b", "m", "p">>

TILE_SIZE == 16
OUTPUT_IMAGE == <<"t", "i", "l", "e", "s", "e", "t", ".", "p", "n", "g">>
OUTPUT_JSON == <<"t", "i", "l", "e", "s", "e", "t", ".", "j", "s", "o", "n">>

\* f.lower().endswith(".png")
IsPngName(f) == EndsWith(Lower(f), DotPng)

\* mutant of SortKey: a stem that is no integer sorts as 0
SortKeyLenient(f) ==
  [ok |-> TRUE, val |-> IntParse(SplitExt(f)[1]).val]

\* key=lambda x: int(os.path.splitext(x)[0])
SortKey(f) == IntParse(SplitExt(f)[1])

\* mutant of SortedByKey: the names stay in listing order
SortedByKeyUnsorted(s) == s

\* sorted(s, key=...): each element goes behind those whose key is not greater
\* (the sort is stable)
RECURSIVE SortedByKey(_)
SortedByKey(s) ==
  IF Len(s) = 0 THEN <<>>
  ELSE LET front == SortedByKey(SubSeq(s, 1, Len(s) - 1))
           e     == s[Len(s)]
           k     == Cardinality({i \in 1..Len(front) :
                                   SortKey(front[i]).val <= SortKey(e).val})
       IN SubSeq(front, 1, k) \o <<e>> \o SubSeq(front, k + 1, Len(front))

\* [f for f in os.listdir(INPUT_DIR) if f.lower().endswith(".png")]
PngNames(ls) == SelectSeq(ls, IsPngName)

\* mutant of AtlasRows: the division rounds down
AtlasRowsFloor(total) == total \div ATLAS_COLS

\* rows = math.ceil(total / ATLAS_COLS)
AtlasRows(total) == 0 - ((0 - total) \div ATLAS_COLS)

\* Image.new("RGBA", (w, h), (0, 0, 0, 0)): a transparent canvas, nothing pasted
NewAtlas(w, h) == [w |-> w, h |-> h, layers |-> <<>>]

\* atlas.paste(img, (x, y))
Paste(a, img, x, y) ==
  [a EXCEPT !.layers = Append(@, [img |-> img, x |-> x, y |-> y])]

\* f"tile-{tile_id}"
TileKey(tile_id) == <<"t", "i", "l", "e", "-">> \o tile_id

\* mapping[key] = value
DictSet(d, key, value) ==
  [k \in (DOMAIN d) \cup {key} |-> IF k = key THEN value ELSE d[k]]

EmptyDict == [k \in {} |-> 0]

\* ghost: how a run ended, whether it found the atlas image in the folder it
\* listed, and whether that image had been deleted since the run before
RunRecord(ok, found) ==
  [ok |-> ok, sawOutput |-> OUTPUT_IMAGE \in DOMAIN found, cleared |-> cleared]

\* what os.listdir(INPUT_DIR) may return.  Only the relative order of the
\* .png names reaches the program (the others are filtered out at once), so
\* the other names are listed last, in one fixed order.
Listings(f) ==
  LET rest == CHOOSE r \in Orders({n \in DOMAIN f : ~IsPngName(n)}) : TRUE
  IN {ls \o rest : ls \in Orders({n \in DOMAIN f : IsPngName(n)})}

\* lines 13-24: list, filter and sort the names (int() of a stem may raise
\* ValueError, which ends the run), size and create the canvas.  A script
\* run is a process of its own: the locals and output of the run before it
\* are gone.
PackerStart ==
  /\ pc \in {"pack_start", "rename_done", "pack_done", "pack_failed"}
  /\ Len(runlog) < MaxRuns
  /\ startFolder' = folder
  /\ IF \E n \in DOMAIN folder : IsPngName(n) /\ ~SortKey(n).ok
     THEN /\ pc' = "pack_failed"
          /\ runlog' = Append(runlog, RunRecord(FALSE, folder))
          /\ cleared' = FALSE
          /\ files' = <<>>
          /\ atlas' = NewAtlas(0, 0)
     ELSE /\ pc' = "pack"
          /\ files' \in {SortedByKey(PngNames(ls)) : ls \in Listings(folder)}
          /\ atlas' = NewAtlas(ATLAS_COLS * TILE_SIZE,
                               AtlasRows(Len(files')) * TILE_SIZE)
          /\ UNCHANGED <<runlog, cleared>>
  /\ mapping' = EmptyDict
  /\ pi' = 0
  /\ out' = <<>>
  /\ listing' = <<>>
  /\ ri' = 0
  /\ UNCHANGED folder
  /\ UNCHANGED <<configVars, splitterVars>>

\* one pass of the loop body, for files[pi + 1]
PackerIter ==
  /\ pc = "pack"
  /\ pi < Len(files)
  /\ LET file    == files[pi + 1]
         tile_id == SplitExt(file)[1]
         x       == (pi % ATLAS_COLS) * TILE_SIZE
         y       == (pi \div ATLAS_COLS) * TILE_SIZE
     IN IF file \notin DOMAIN folder \/ folder[file].kind # "png"
        THEN \* Image.open raises: the run dies with nothing written
             /\ pc' = "pack_failed"
             /\ runlog' = Append(runlog, RunRecord(FALSE, startFolder))
             /\ cleared' = FALSE
             /\ UNCHANGED <<atlas, mapping, pi>>
        ELSE /\ atlas' = Paste(atlas, folder[file].img, x, y)
             /\ mapping' = DictSet(mapping, TileKey(tile_id),
                                   [x |-> x, y |-> y,
                                    width |-> TILE_SIZE, height |-> TILE_SIZE])
             /\ pi' = pi + 1
             /\ UNCHANGED <<pc, runlog, cleared>>
  /\ UNCHANGED <<folder, out, files, startFolder>>
  /\ UNCHANGED <<configVars, splitterVars, renamerVars>>

\* lines 40-46: both outputs are written and the run reports.  With no tile
\* the canvas is 0 pixels high, and Pillow's PNG writer may refuse an empty
\* image: atlas.save then raises, leaving an unusable tileset.png or none.
PackerSave ==
  /\ pc = "pack"
  /\ pi = Len(files)
  /\ \/ /\ folder' = WriteFile(WriteFile(folder, OUTPUT_IMAGE, PngFile(atlas)),
                               OUTPUT_JSON,
                               [kind |-> "json", mapping |-> mapping])
        /\ out' = Append(out, <<"Tiles packed", Len(files), ATLAS_COLS,
                                AtlasRows(Len(files))>>)
        /\ pc' = "pack_done"
        /\ runlog' = Append(runlog, RunRecord(TRUE, startFolder))
     \/ /\ atlas.h = 0
        /\ \E left \in BOOLEAN :
             folder' = IF left
                       THEN WriteFile(folder, OUTPUT_IMAGE, [kind |-> "broken"])
                       ELSE folder
        /\ pc' = "pack_failed"
        /\ runlog' = Append(runlog, RunRecord(FALSE, startFolder))
        /\ UNCHANGED out
  /\ cleared' = FALSE
  /\ UNCHANGED <<files, atlas, mapping, pi, startFolder>>
  /\ UNCHANGED <<configVars, splitterVars, renamerVars>>

\* between two runs the user deletes the atlas image
RemoveOutput ==
  /\ pc \in {"pack_done", "pack_failed"}
  /\ OUTPUT_IMAGE \in DOMAIN folder
  /\ Len(runlog) < MaxRuns
  /\ folder' = RemoveFile(folder, OUTPUT_IMAGE)
  /\ cleared' = TRUE
  /\ UNCHANGED <<pc, out, startFolder, files, atlas, mapping, pi, runlog>>
  /\ UNCHANGED <<configVars, splitterVars, renamerVars>>

-----------------------------------------------------------------------------
(* Initial states *)

\* the CONFIG values the scripts ship with
TILESET_WIDTH_shipped == 17
ATLAS_COLS_shipped == 16
RenamerWidths == (1..MaxCols) \cup {TILESET_WIDTH_shipped}
PackerCols == (1..MaxCols) \cup {ATLAS_COLS_shipped}

\* the names a Renamer run may find: well-formed coordinates, two that share
\* a cell (0_0 and 5_0), a negative one, names of the form <id>.png, stems
\* that are no two integers, and an upper-case extension
RenamePool ==
  <<<<"0", "_", "0", ".", "p", "n", "g">>,
    <<"1", "6", "_", "0", ".", "p", "n", "g">>,
    <<"0", "_", "1", "6", ".", "p", "n", "g">>,
    <<"3", "2", "_", "0", ".", "p", "n", "g">>,
    <<"5", "_", "0", ".", "p", "n", "g">>,
    <<"-", "1", "6", "_", "0", ".", "p", "n", "g">>,
    <<"1", ".", "p", "n", "g">>,
    <<"3", ".", "p", "n", "g">>,
    <<"a", "_", "b", ".", "p", "n", "g">>,
    <<"0", "_", "0", "_", "0", ".", "p", "n", "g">>,
    <<"0", "_", "0", ".", "P", "N", "G">>>>

\* the names a Packer run may find: integer stems, equal integers written
\* differently (1, 01; 10, 1_0), one stem under two extension cases, a
\* negative stem, stems that are no integer, and a file that is no .png
PackPool ==
  <<<<"1", ".", "p", "n", "g">>,
    <<"2", ".", "p", "n", "g">>,
    <<"1", "0", ".", "p", "n", "g">>,
    <<"0", "1", ".", "p", "n", "g">>,
    <<"1", ".", "P", "N", "G">>,
    <<"1", "_", "0", ".", "p", "n", "g">>,
    <<"-", "3", ".", "p", "n", "g">>,
    <<"a", ".", "p", "n", "g">>,
    <<"n", "o", "t", "e", "s", ".", "t", "x", "t">>,
    <<"t", "i", "l", "e", "s", "e", "t", ".", "p", "n", "g">>>>

\* the image held by the k-th file of a pool: one tile, unlike the others'
PoolImage(k) ==
  [w |-> TILE_SIZE, h |-> TILE_SIZE, src |-> <<TILE_SIZE * k, 0>>,
   opaque |-> {<<0, 0>>}]

PoolContent(pool, n) ==
  IF IsPngName(n)
  THEN PngFile(PoolImage(CHOOSE k \in 1..Len(pool) : pool[k] = n))
  ELSE [kind |-> "text"]

\* the folders of at most MaxFiles files of a pool
FoldersOf(pool) ==
  {[n \in {pool[k] : k \in S} |-> PoolContent(pool, n)] :
     S \in {T \in SUBSET (1..Len(pool)) : Cardinality(T) <= MaxFiles}}

NoImage == [w |-> 0, h |-> 0, src |-> <<0, 0>>, opaque |-> {}]

\* pixels of a source image that may be non-transparent
OpaqueCandidates == {<<0, 0>>, <<20, 3>>}

SourceImages(widths, heights) ==
  {[w |-> w, h |-> h, src |-> <<0, 0>>, opaque |-> o] :
     w \in widths, h \in heights,
     o \in SUBSET OpaqueCandidates}

InitLocals ==
  /\ out = <<>>
  /\ sx = 0 /\ sy = 0 /\ count = 0
  /\ listing = <<>> /\ ri = 0
  /\ files = <<>> /\ atlas = NewAtlas(0, 0) /\ mapping = EmptyDict /\ pi = 0
  /\ runlog = <<>> /\ cleared = FALSE
  /\ startFolder = folder

NoSplitter ==
  /\ tileset = NoImage
  /\ tile_width = TILE_SIZE /\ tile_height = TILE_SIZE
  /\ skip_empty = FALSE

\* the Splitter alone, on an empty output folder
SplitWidths == 0..MaxWidth \cup {160}
SplitHeights == {0, 15, 16, 20, 32, 160}
SplitTileSizes == {8, 16, 32}

InitSplit ==
  /\ pc = "split_start"
  /\ folder = EmptyFolder
  /\ tileset \in SourceImages(SplitWidths, SplitHeights)
  /\ tile_width \in SplitTileSizes
  /\ tile_height \in SplitTileSizes
  /\ skip_empty \in BOOLEAN
  /\ TILESET_WIDTH = 1 /\ ATLAS_COLS = 1
  /\ InitLocals

\* the Renamer alone, on any folder of the pool
InitRename ==
  /\ pc = "rename_start"
  /\ folder \in FoldersOf(RenamePool)
  /\ TILESET_WIDTH \in RenamerWidths
  /\ ATLAS_COLS = 1
  /\ NoSplitter
  /\ InitLocals

\* the Packer alone, run up to MaxRuns times on any folder of the pool
InitPack ==
  /\ pc = "pack_start"
  /\ folder \in FoldersOf(PackPool)
  /\ ATLAS_COLS \in PackerCols
  /\ TILESET_WIDTH = 1
  /\ NoSplitter
  /\ InitLocals

\* the pipeline Splitter -> Renamer -> Packer on an empty folder
PipeWidths == {16, 32, 40, 48}
PipeHeights == {16, 32}
PipeTileSizes == {<<16, 16>>, <<8, 16>>, <<32, 32>>}

InitPipe ==
  /\ pc = "split_start"
  /\ folder = EmptyFolder
  /\ tileset \in SourceImages(PipeWidths, PipeHeights)
  /\ \E t \in PipeTileSizes : tile_width = t[1] /\ tile_height = t[2]
  /\ tiles_x * tiles_y <= MaxTiles
  /\ skip_empty \in BOOLEAN
  /\ TILESET_WIDTH \in RenamerWidths
  /\ ATLAS_COLS \in PackerCols
  /\ InitLocals

NextSplit == SplitterStart \/ SplitterIter \/ SplitterDone
NextRename == RenamerListdir \/ RenamerIter \/ RenamerDone
NextPack == PackerStart \/ PackerIter \/ PackerSave \/ RemoveOutput
Next == NextSplit \/ NextRename \/ NextPack

SpecSplit == InitSplit /\ [][NextSplit]_vars
SpecRename == InitRename /\ [][NextRename]_vars
SpecPack == InitPack /\ [][NextPack]_vars
Spec == InitPipe /\ [][Next]_vars

-----------------------------------------------------------------------------
(* Renamer: the claims *)

\* the name n is <x>_<y>.png, x and y integers: what precedes ".png" holds
\* one underscore, with an integer on either side of it
NameStem(n) == SubSeq(n, 1, Len(n) - Len(DotPng))
UnderscoreAt(n) == {k \in 1..Len(NameStem(n)) : NameStem(n)[k] = "_"}
LeftOf(n) == SubSeq(NameStem(n), 1, SetMin(UnderscoreAt(n)) - 1)
RightOf(n) ==
  SubSeq(NameStem(n), SetMin(UnderscoreAt(n)) + 1, Len(NameStem(n)))
IsCoordName(n) ==
  /\ EndsWith(n, DotPng)
  /\ Cardinality(UnderscoreAt(n)) = 1
  /\ IntParse(LeftOf(n)).ok
  /\ IntParse(RightOf(n)).ok
NameX(n) == IntParse(LeftOf(n)).val
NameY(n) == IntParse(RightOf(n)).val

\* id = floor(y/16)*W + floor(x/16) + 1, and the name <id>.png
ExpectedId(n) ==
  (NameY(n) \div 16) * TILESET_WIDTH + (NameX(n) \div 16) + 1
ExpectedName(n) == Str(ExpectedId(n)) \o DotPng

\* a .png name that is not <x>_<y>.png
IsMalformed(n) == EndsWith(n, DotPng) /\ ~IsCoordName(n)

\* the positions of the listing whose file is renamed to the name t
SourcesOf(t) ==
  {i \in 1..Len(listing) : IsCoordName(listing[i]) /\ ExpectedName(listing[i]) = t}
\* the last file of the listing renamed to t
LastSource(t) == listing[SetMax(SourcesOf(t))]

\* C1 as stated: after the run every file <x>_<y>.png has its content under
\* <id>.png, id = floor(y/16)*W + floor(x/16) + 1, and its old name is gone.
C1_AsStated ==
  pc = "rename_done" =>
    \A n \in DOMAIN startFolder :
      IsCoordName(n) =>
        /\ ExpectedName(n) \in DOMAIN folder
        /\ folder[ExpectedName(n)] = startFolder[n]
        /\ n \notin DOMAIN folder

\* C1, amended: after the run the old name of every file <x>_<y>.png is gone
\* and <id>.png exists, id = floor(y/16)*W + floor(x/16) + 1, holding the
\* content of the last listed file that maps to that id: the file's own
\* content when no file listed after it maps to the same id.
C1_RenamedToId ==
  pc = "rename_done" =>
    \A i \in 1..Len(listing) :
      IsCoordName(listing[i]) =>
        /\ listing[i] \notin DOMAIN folder
        /\ ExpectedName(listing[i]) \in DOMAIN folder
        /\ folder[ExpectedName(listing[i])] =
             startFolder[LastSource(ExpectedName(listing[i]))]
        /\ (\A j \in (i + 1)..Len(listing) :
              ~(IsCoordName(listing[j])
                /\ ExpectedName(listing[j]) = ExpectedName(listing[i])))
           => folder[ExpectedName(listing[i])] = startFolder[listing[i]]

\* a finished run that renamed a file of a row below the first, with more
\* than one column configured, and a file with a negative coordinate
C1_Witness ==
  /\ pc = "rename_done"
  /\ TILESET_WIDTH >= 2
  /\ \E n \in DOMAIN startFolder :
       /\ IsCoordName(n) /\ NameY(n) >= 16
       /\ ExpectedName(n) \in DOMAIN folder
       /\ folder[ExpectedName(n)] = startFolder[n]
  /\ \E n \in DOMAIN startFolder :
       IsCoordName(n) /\ NameX(n) >= 16 /\ n \notin DOMAIN folder

\* C6 as stated: a malformed .png file keeps its name and content, the run
\* goes on to its end, and every well-formed file is renamed.
C6_AsStated ==
  /\ pc # "rename_failed"
  /\ pc = "rename_done" =>
       /\ \A n \in DOMAIN startFolder :
            IsMalformed(n) => n \in DOMAIN folder /\ folder[n] = startFolder[n]
       /\ \A n \in DOMAIN startFolder :
            IsCoordName(n) =>
              n \notin DOMAIN folder /\ ExpectedName(n) \in DOMAIN folder

\* C6, amended: a malformed .png file is skipped and keeps its name; it keeps
\* its content unless its name is the target <id>.png of a well-formed file
\* of the listing, whose content it then holds; the run goes on to its end
\* and every well-formed file is renamed, wherever the malformed ones are
\* listed.
C6_SkippedAndContinues ==
  /\ pc # "rename_failed"
  /\ pc = "rename_done" =>
       /\ ri = Len(listing)
       /\ \A n \in DOMAIN startFolder :
            IsMalformed(n) =>
              /\ n \in DOMAIN folder
              /\ folder[n] = IF SourcesOf(n) = {} THEN startFolder[n]
                             ELSE startFolder[LastSource(n)]
              /\ \E k \in 1..Len(out) : out[k] = <<"Skipping", n>>
       /\ \A n \in DOMAIN startFolder :
            IsCoordName(n) =>
              n \notin DOMAIN folder /\ ExpectedName(n) \in DOMAIN folder

\* a finished run that listed a malformed file before a well-formed one and
\* another after it
C6_Witness ==
  /\ pc = "rename_done"
  /\ \E i, j, k \in 1..Len(listing) :
       /\ i < j /\ j < k
       /\ IsMalformed(listing[i]) /\ IsCoordName(listing[j])
       /\ IsMalformed(listing[k])
       /\ listing[j] \notin DOMAIN folder
       /\ folder[listing[i]] = startFolder[listing[i]]

\* C9: when files share a target id, or <id>.png is there already, the run
\* still ends without error and prints nothing but its one line per .png
\* file; the folder then holds the untouched files and one <id>.png per
\* target, with the content of the last file renamed to it in listing order.
C9_SilentOverwrite ==
  /\ pc # "rename_failed"
  /\ pc = "rename_done" =>
       /\ DOMAIN folder =
            {n \in DOMAIN startFolder : ~IsCoordName(n)}
              \cup {ExpectedName(n) : n \in {m \in DOMAIN startFolder : IsCoordName(m)}}
       /\ \A t \in DOMAIN folder :
            SourcesOf(t) # {} => folder[t] = startFolder[LastSource(t)]
       /\ Len(out) = Cardinality({i \in 1..Len(listing) : EndsWith(listing[i], DotPng)})
       /\ \A k \in 1..Len(out) : out[k][1] \in {"Skipping", "Renamed"}

\* a finished run in which two files were renamed to an <id>.png that was in
\* the folder from the start
C9_Witness ==
  /\ pc = "rename_done"
  /\ \E a, b, t \in DOMAIN startFolder :
       /\ a # b
       /\ IsCoordName(a) /\ IsCoordName(b)
       /\ ExpectedName(a) = t /\ ExpectedName(b) = t
       /\ NameX(a) \div 16 >= TILESET_WIDTH

-----------------------------------------------------------------------------
(* Atlas Packer: the claims *)

\* the .png files (extension in any case) of the folder the run listed
InputTiles == {n \in DOMAIN startFolder : EndsWith(Lower(n), DotPng)}
\* the integer a file's stem stands for; ok = FALSE when it stands for none
StemInt(n) == IntParse(SplitExt(n)[1])
\* the placement rectangle of sorted position i (0-based)
CellRect(i) ==
  [x |-> (i % ATLAS_COLS) * TILE_SIZE, y |-> (i \div ATLAS_COLS) * TILE_SIZE,
   width |-> TILE_SIZE, height |-> TILE_SIZE]
\* the manifest as written by a finished run
Manifest == folder[OUTPUT_JSON].mapping
\* the run has ended well and its outputs are still there
PackedNow == pc = "pack_done" /\ ~cleared

\* C2 as stated: the tiles are placed in ascending order of their integer
\* stems whatever the listing order, and the tile at sorted position i is
\* pasted at ((i mod C)*tileSize, (i div C)*tileSize) and recorded in the
\* manifest under "tile-<stem>" with that rectangle.
C2_AsStated ==
  PackedNow =>
    /\ {files[k] : k \in 1..Len(files)} = InputTiles
    /\ Len(files) = Cardinality(InputTiles)
    /\ \A j, k \in 1..Len(files) :
         j < k => StemInt(files[j]).val <= StemInt(files[k]).val
    /\ Len(atlas.layers) = Len(files)
    /\ \A k \in 1..Len(files) :
         /\ atlas.layers[k] = [img |-> startFolder[files[k]].img,
                               x |-> CellRect(k - 1).x, y |-> CellRect(k - 1).y]
         /\ TileKey(SplitExt(files[k])[1]) \in DOMAIN Manifest
         /\ Manifest[TileKey(SplitExt(files[k])[1])] = CellRect(k - 1)

\* the least r with r * c >= n
CeilDiv(n, c) == CHOOSE r \in 0..n : r * c >= n /\ (r = 0 \/ (r - 1) * c < n)

\* C3: for N >= 1 tiles and C >= 1 columns the canvas is C*tileSize wide and
\* ceil(N/C)*tileSize high from before the first tile is placed to the end of
\* the run, and every placement rectangle lies inside it.
C3_CanvasSize ==
  (pc \in {"pack", "pack_done"} /\ Cardinality(InputTiles) >= 1) =>
    /\ atlas.w = ATLAS_COLS * TILE_SIZE
    /\ atlas.h = CeilDiv(Cardinality(InputTiles), ATLAS_COLS) * TILE_SIZE
    /\ Len(atlas.layers) = pi
    /\ pc = "pack_done" => pi = Cardinality(InputTiles)
    /\ \A k \in 1..Len(atlas.layers) :
         /\ 0 <= atlas.layers[k].x
         /\ atlas.layers[k].x + TILE_SIZE <= atlas.w
         /\ 0 <= atlas.layers[k].y
         /\ atlas.layers[k].y + TILE_SIZE <= atlas.h
    /\ \A key \in DOMAIN mapping :
         /\ 0 <= mapping[key].x
         /\ mapping[key].x + mapping[key].width <= atlas.w
         /\ 0 <= mapping[key].y
         /\ mapping[key].y + mapping[key].height <= atlas.h

\* a finished run whose last atlas row is partly filled and not the first
C3_Witness ==
  /\ pc = "pack_done"
  /\ Cardinality(InputTiles) > ATLAS_COLS
  /\ Cardinality(InputTiles) % ATLAS_COLS # 0
  /\ atlas.layers[Len(atlas.layers)].y >= TILE_SIZE

\* some .png file of the listed folder has a stem that is no integer
HasBadStem == \E n \in InputTiles : ~StemInt(n).ok

\* C5: when a .png file has a stem that fails integer parsing the run fails
\* as a whole: no tile is placed and neither output is written.
C5_BadStemFailsRun ==
  (pc \in {"pack", "pack_done", "pack_failed"} /\ HasBadStem) =>
    /\ pc = "pack_failed"
    /\ ~runlog[Len(runlog)].ok
    /\ atlas.layers = <<>>
    /\ mapping = EmptyDict
    /\ DOMAIN folder \subseteq DOMAIN startFolder
    /\ \A n \in DOMAIN folder : folder[n] = startFolder[n]

\* a failed run whose folder held a bad stem beside two good ones
C5_Witness ==
  /\ pc = "pack_failed"
  /\ HasBadStem
  /\ Cardinality({n \in InputTiles : StemInt(n).ok}) >= 2
  /\ OUTPUT_IMAGE \notin DOMAIN startFolder

\* C7 as stated: after a successful run the manifest has one entry per tile
\* file packed, also for files that differ only in the case of the extension.
C7_AsStated ==
  PackedNow =>
    /\ Len(files) = Cardinality(InputTiles)
    /\ Cardinality(DOMAIN Manifest) = Len(files)

\* C10: a successful run leaves tileset.png in the folder it lists; a run
\* that lists tileset.png aborts; so of two consecutive runs both succeed only
\* if tileset.png was deleted between them.
C10_SecondRunAborts ==
  /\ PackedNow =>
       /\ OUTPUT_IMAGE \in DOMAIN folder
       /\ folder[OUTPUT_IMAGE] = PngFile(atlas)
  /\ \A k \in 1..Len(runlog) : runlog[k].sawOutput => ~runlog[k].ok
  /\ \A k \in 2..Len(runlog) :
       (runlog[k - 1].ok /\ runlog[k].ok) => runlog[k].cleared

\* a successful run followed, on the unchanged folder, by a run that aborted
C10_Witness ==
  /\ Len(runlog) >= 2
  /\ runlog[1].ok
  /\ ~runlog[2].ok /\ runlog[2].sawOutput /\ ~runlog[2].cleared
  /\ Len(files) = 0
  /\ pc = "pack_failed"

-----------------------------------------------------------------------------
(* Splitter: the claim *)

\* the grid of a W x H image cut into tw x th tiles
GridCols == tileset.w \div tile_width
GridRows == tileset.h \div tile_height
\* the name <col*tw>_<row*th>.png
CellFileName(col, row) ==
  Str(col * tile_width) \o <<"_">> \o Str(row * tile_height) \o DotPng
\* the pixels of the cell (col, row)
CellImage(col, row) ==
  [w |-> tile_width, h |-> tile_height,
   src |-> <<col * tile_width, row * tile_height>>,
   opaque |-> {<<q[1] - col * tile_width, q[2] - row * tile_height>> :
                 q \in {o \in tileset.opaque :
                          /\ o[1] \div tile_width = col
                          /\ o[2] \div tile_height = row}}]
\* the cells that precede position k of the row-major order
CellsBefore(k) ==
  {c \in (0..(GridCols - 1)) \X (0..(GridRows - 1)) : c[2] * GridCols + c[1] < k}

\* C4: with skip_empty off the files written are those of the grid cells, in
\* row-major order, each cell (col, row) saved as <col*tw>_<row*th>.png with
\* the cell's pixels; at the end there are floor(W/tw)*floor(H/th) of them,
\* none for a partial trailing column or row, and the count printed is their
\* number; a 160x160 image at tile size 16 gives 100 files, 0_0.png to
\* 144_144.png.
C4_SplitGrid ==
  (pc \in {"split", "split_done"} /\ ~skip_empty) =>
    /\ DOMAIN folder =
         {CellFileName(c[1], c[2]) :
            c \in CellsBefore(IF pc = "split_done" THEN GridCols * GridRows
                              ELSE sy * GridCols + sx)}
    /\ Cardinality(DOMAIN folder) = count
    /\ \A c \in (0..(GridCols - 1)) \X (0..(GridRows - 1)) :
         CellFileName(c[1], c[2]) \in DOMAIN folder =>
           /\ folder[CellFileName(c[1], c[2])] = PngFile(CellImage(c[1], c[2]))
           /\ (c[1] + 1) * tile_width <= tileset.w
           /\ (c[2] + 1) * tile_height <= tileset.h
    /\ pc = "split_done" =>
         /\ count = (tileset.w \div tile_width) * (tileset.h \div tile_height)
         /\ out[Len(out)] = <<"Done! Saved", Cardinality(DOMAIN folder)>>
         /\ (tileset.w = 160 /\ tileset.h = 160
             /\ tile_width = 16 /\ tile_height = 16) =>
              /\ count = 100
              /\ <<"0", "_", "0", ".", "p", "n", "g">> \in DOMAIN folder
              /\ <<"1", "4", "4", "_", "1", "4", "4", ".", "p", "n", "g">>
                   \in DOMAIN folder
              /\ \A n \in DOMAIN folder :
                   folder[n].img.src[1] <= 144 /\ folder[n].img.src[2] <= 144

\* a finished split, skip_empty off, of an image with a partial trailing
\* column and a partial trailing row and at least two full rows and columns
C4_Witness ==
  /\ pc = "split_done"
  /\ ~skip_empty
  /\ tileset.w % tile_width # 0
  /\ tileset.h % tile_height # 0
  /\ GridCols >= 2 /\ GridRows >= 2
  /\ count = GridCols * GridRows

-----------------------------------------------------------------------------
(* The pipeline Splitter -> Renamer -> Atlas Packer: the claim *)

\* the row-major positions of the cells the Splitter saves
KeptCells ==
  {k \in 0..(GridCols * GridRows - 1) :
     ~skip_empty \/ CellImage(k % GridCols, k \div GridCols).opaque # {}}
\* the cell at sorted position i (0-based) of the saved tiles
KeptAt(i) == CHOOSE k \in KeptCells : Cardinality({j \in KeptCells : j < k}) = i

\* the paste l covers some pixel of the rectangle r
Overlaps(l, r) ==
  /\ l.x < r.x + r.width /\ r.x < l.x + l.img.w
  /\ l.y < r.y + r.height /\ r.y < l.y + l.img.h

\* the rectangle r of the canvas a shows exactly the image img: img was
\* pasted at r's origin, fills r, and nothing pasted later reaches into r
CellHolds(a, r, img) ==
  /\ r.x + r.width <= a.w /\ r.y + r.height <= a.h
  /\ img.w = r.width /\ img.h = r.height
  /\ \E k \in 1..Len(a.layers) :
       /\ a.layers[k] = [img |-> img, x |-> r.x, y |-> r.y]
       /\ \A j \in (k + 1)..Len(a.layers) : ~Overlaps(a.layers[j], r)

\* the Renamer's id of the cell at row-major position k
PipelineId(k) == (k \div GridCols) * TILESET_WIDTH + (k % GridCols) + 1

\* for every sorted position i: atlas cell i shows the original tile at
\* sorted position i, and that tile's manifest entry is cell i's rectangle
RoundTrip ==
  \A i \in 0..(Cardinality(KeptCells) - 1) :
    /\ CellHolds(atlas, CellRect(i),
                 CellImage(KeptAt(i) % GridCols, KeptAt(i) \div GridCols))
    /\ TileKey(Str(PipelineId(KeptAt(i)))) \in DOMAIN Manifest
    /\ Manifest[TileKey(Str(PipelineId(KeptAt(i))))] = CellRect(i)

\* the first Packer run of the pipeline has ended well, on 16 x 16 tiles
PipelinePacked ==
  /\ PackedNow
  /\ Len(runlog) = 1
  /\ tile_width = TILE_SIZE /\ tile_height = TILE_SIZE

\* C8 as stated: after Splitter -> Renamer -> Packer(columns = C) on a
\* folder holding only the Splitter's output (16 x 16 tiles, the size of the
\* claim's rectangles), atlas cell i shows the original tile at sorted
\* position i and its manifest entry "tile-<id>" is (i%C*16, i/C*16, 16, 16).
C8_AsStated == PipelinePacked => RoundTrip

\* C8, amended: the same, when the Renamer's column count W is at least the
\* number of tile columns of the split image.
C8_RoundTrip ==
  (PipelinePacked /\ GridCols <= TILESET_WIDTH) =>
    /\ RoundTrip
    /\ Len(atlas.layers) = Cardinality(KeptCells)

\* a finished pipeline on an image of two rows and two columns of tiles, all
\* saved, with a wider Renamer row and an atlas of another width
C8_Witness ==
  /\ PipelinePacked
  /\ GridCols >= 2 /\ GridRows >= 2
  /\ GridCols < TILESET_WIDTH
  /\ Cardinality(KeptCells) = GridCols * GridRows
  /\ ATLAS_COLS # GridCols /\ ATLAS_COLS >= 2
  /\ RoundTrip

=============================================================================
